---- MODULE Spec2Model ----
(***************************************************************************)
(* State-machine model of app.py: the GSC -> PostgreSQL synchronisation    *)
(* service (authenticate_gsc, fetch_gsc_data, load_data_to_postgres and    *)
(* the /trigger-gsc-sync handler).                                         *)
(*                                                                         *)
(* A run is one invocation of an entry point.  Runs are indexed by Procs;  *)
(* the per-run locals of each function are the fields of trig, fetch and   *)
(* load, named as in the source.  The analytics API, the credential file   *)
(* and the faults of the database client are the environment: every        *)
(* action takes the environment's answer as a parameter, and each          *)
(* specification draws the answers from its own small sets.  The store is  *)
(* PostgreSQL: a table with a unique composite key, one transaction per    *)
(* connection, row-level blocking between open transactions.  The table's  *)
(* definition is not part of app.py; the statement of lines 90-96 needs a  *)
(* unique index or a primary key on its conflict target, and schema says   *)
(* which of the two the table has.  A table is a bag of rows: under a      *)
(* unique index rows of a NULL date do not conflict and may repeat.        *)
(*                                                                         *)
(* A str whose characters the code looks at (the keys of an API row, the   *)
(* command tag of a statement, the days parameter) is a text: the sequence *)
(* of its Unicode code points, so "mobile" is <<109, 111, 98, 105, 108,    *)
(* 101>>.  The tables of int() and str.upper() are those of Unicode 14     *)
(* (CPython 3.11).  Messages, which the code only builds and tests for the *)
(* word ERRO, are sequences of words.                                      *)
(***************************************************************************)
EXTENDS Integers, Sequences, FiniteSets, Bags, TLC

\* ------------------------------------------------------------------ bounds
\* Full pages the analytics API serves to one fetch before it must end the data.
MaxPages == 3
\* Rows of a short API page, and of one loader input.
MaxRows == 2
\* Successive loader calls of one run of SpecLoad.
MaxCalls == 2

\* --------------------------------------------------------------- constants
ROW_LIMIT_PER_REQUEST == 5000
GSC_SITE_URL == "https://www.feirasderua.com.br/"
GCP_KEY_PATH == "/etc/secrets/gsc_service_account.json"

\* Python's None where the other values are strings.
None == "<None>"
\* Python's None where the other values are texts: a str the code looks into is
\* kept as the sequence of its Unicode code points, and no text holds -1.
NoneText == <<-1>>
\* Python's None where the other values are messages (sequences of words).
NoMessage == <<>>

Procs == {"r1", "r2"}

VARIABLES
    schema,         \* how gsc_desempenho declares the conflict target
    DATABASE_URL,   \* module global read from the environment at import
    today,          \* datetime.date.today(), as a proleptic Gregorian ordinal
    table,          \* committed rows of gsc_desempenho
    last_upsert,    \* history: key -> metrics of the latest committed upsert
    pc,             \* position of each run
    trig,           \* locals of trigger_gsc_sync, per run
    fetch,          \* locals of fetch_gsc_data, per run
    load            \* locals of load_data_to_postgres, per run

vars == <<schema, DATABASE_URL, today, table, last_upsert, pc, trig, fetch, load>>

\* ----------------------------------------------------------------- helpers
Range(s) == {s[i] : i \in 1..Len(s)}

\* Python truthiness of an optional string: None and "" are falsy.
Falsy(x) == x = None \/ x = ""
\* The same on a text.
FalsyText(x) == x = NoneText \/ x = <<>>

\* dict.get(key, default) on a dict modelled as a function.
DictGet(d, key, default) == IF key \in DOMAIN d THEN d[key] ELSE default

\* "needle in message" on a message kept as its sequence of words.
Contains(message, needle) == needle \in Range(message)

\* "needle in text" on texts: needle occurs as a run of consecutive characters.
SubstringOf(needle, text) ==
    \E i \in 0..(Len(text) - Len(needle)) :
        SubSeq(text, i + 1, i + Len(needle)) = needle

\* ================================================================== fetch
\* Locals of fetch_gsc_data at entry (lines 46-48), with the call's arguments.
FetchEntry(start_date_str, end_date_str) ==
    [ start_date_str |-> start_date_str, end_date_str |-> end_date_str,
      all_rows |-> <<>>, start_row |-> 0, processed_rows_count |-> 0,
      requests |-> <<>>,      \* history: the request bodies sent
      pages |-> <<>>,         \* history: the API's answers (rows, or the error)
      returned |-> FALSE,
      gsc_rows |-> [none |-> TRUE, rows |-> <<>>], fetch_error |-> NoMessage ]

\* request_body of line 52-56.
RequestBody(f) ==
    [ startDate |-> f.start_date_str, endDate |-> f.end_date_str,
      dimensions |-> <<"date", "page", "query", "device">>,
      rowLimit |-> ROW_LIMIT_PER_REQUEST, startRow |-> f.start_row ]

\* response.get('rows', [])
ResponseRows(response) == DictGet(response, "rows", <<>>)

\* all_rows.extend(rows)
Extend(all_rows, rows) == all_rows \o rows

\* start_row += ROW_LIMIT_PER_REQUEST (NextStartRowM: an off-by-one offset)
NextStartRowM(start_row) == start_row + ROW_LIMIT_PER_REQUEST - 1
NextStartRow(start_row) == start_row + ROW_LIMIT_PER_REQUEST

\* return all_rows, None
FetchSuccess(all_rows) ==
    [gsc_rows |-> [none |-> FALSE, rows |-> all_rows], fetch_error |-> NoMessage]

\* return None, error_msg (both except clauses).  FetchFailureM: the rows
\* accumulated so far returned with the error.
FetchFailureM(all_rows, error_msg) ==
    [gsc_rows |-> [none |-> FALSE, rows |-> all_rows], fetch_error |-> error_msg]
FetchFailure(all_rows, error_msg) ==
    [gsc_rows |-> [none |-> TRUE, rows |-> <<>>], fetch_error |-> error_msg]

\* The error message of each except clause, as words.
FetchErrorMsg(exc) ==
    IF exc = "HttpError" THEN <<"ERRO", "API", "GSC:", exc>>
    ELSE <<"ERRO", "inesperado", "fetch", "GSC:", exc>>

\* One iteration of the while loop (lines 50-81) and, when the loop ends, the
\* return of line 83.  outcome is what execute() does: "ok" with response, or the
\* exception it raises.  cont is where the caller continues.
FetchIteration(f, outcome, response) ==
    LET sent == [f EXCEPT !.requests = Append(@, RequestBody(f))]
        rows == ResponseRows(response)
        num_rows_in_batch == Len(rows)
        got  == [sent EXCEPT !.pages = Append(@, [error |-> FALSE, rows |-> rows])]
        ret(g, r) == [g EXCEPT !.returned = TRUE, !.gsc_rows = r.gsc_rows,
                               !.fetch_error = r.fetch_error]
    IN  IF outcome # "ok"
        THEN ret([sent EXCEPT !.pages = Append(@, [error |-> TRUE, rows |-> <<>>,
                                                   exc |-> outcome])],
                 FetchFailure(f.all_rows, FetchErrorMsg(outcome)))
        ELSE IF rows = <<>>
        THEN ret(got, FetchSuccess(f.all_rows))
        ELSE LET acc == [got EXCEPT !.all_rows = Extend(@, rows),
                                     !.processed_rows_count = @ + num_rows_in_batch]
             IN  IF num_rows_in_batch < ROW_LIMIT_PER_REQUEST
                 THEN ret(acc, FetchSuccess(acc.all_rows))
                 ELSE [acc EXCEPT !.start_row = NextStartRow(@)]

FetchRequest(p, outcome, response, cont) ==
    /\ pc[p] = "fetch_loop"
    /\ fetch' = [fetch EXCEPT ![p] = FetchIteration(@, outcome, response)]
    /\ pc' = [pc EXCEPT ![p] = IF fetch'[p].returned THEN cont ELSE "fetch_loop"]
    /\ UNCHANGED <<schema, DATABASE_URL, today, table, last_upsert, trig, load>>

\* ------------------------------------------------- the API, as environment
\* The rows of the page answering request number j: opaque rows <<j, i>>.
OpaquePage(j, n) == [i \in 1..n |-> <<j, i>>]

\* What the API may answer to the next request of a fetch run on its own: a full
\* page (while fewer than MaxPages were served), a short page (a few rows, or one
\* row less than a full page), a body without 'rows'.
UnitResponses(f) ==
    LET j == Len(f.requests) + 1
    IN  {[rows |-> OpaquePage(j, n)] : n \in (0..MaxRows) \cup {ROW_LIMIT_PER_REQUEST - 1}}
        \cup {[responseAggregationType |-> "byPage"]}
        \cup (IF j <= MaxPages
              THEN {[rows |-> OpaquePage(j, ROW_LIMIT_PER_REQUEST)]} ELSE {})

ApiOutcomes == {"ok", "HttpError", "Exception"}

\* =================================================================== load
\* str.upper(), character by character.  UpperRanges holds the characters whose
\* upper case is one other character, as <<first, last, step, offset>>: every
\* step-th code point from first to last maps to itself plus offset.
\* UpperSpecial holds those whose upper case is several characters.  Every
\* other character is its own upper case.
UpperRanges ==
    {
      <<97, 122, 1, -32>>, <<181, 181, 1, 743>>, <<224, 246, 1, -32>>,
      <<248, 254, 1, -32>>, <<255, 255, 1, 121>>, <<257, 303, 2, -1>>,
      <<305, 305, 1, -232>>, <<307, 311, 2, -1>>, <<314, 328, 2, -1>>,
      <<331, 375, 2, -1>>, <<378, 382, 2, -1>>, <<383, 383, 1, -300>>,
      <<384, 384, 1, 195>>, <<387, 389, 2, -1>>, <<392, 392, 1, -1>>,
      <<396, 396, 1, -1>>, <<402, 402, 1, -1>>, <<405, 405, 1, 97>>,
      <<409, 409, 1, -1>>, <<410, 410, 1, 163>>, <<414, 414, 1, 130>>,
      <<417, 421, 2, -1>>, <<424, 424, 1, -1>>, <<429, 429, 1, -1>>,
      <<432, 432, 1, -1>>, <<436, 438, 2, -1>>, <<441, 441, 1, -1>>,
      <<445, 445, 1, -1>>, <<447, 447, 1, 56>>, <<453, 453, 1, -1>>,
      <<454, 454, 1, -2>>, <<456, 456, 1, -1>>, <<457, 457, 1, -2>>,
      <<459, 459, 1, -1>>, <<460, 460, 1, -2>>, <<462, 476, 2, -1>>,
      <<477, 477, 1, -79>>, <<479, 495, 2, -1>>, <<498, 498, 1, -1>>,
      <<499, 499, 1, -2>>, <<501, 501, 1, -1>>, <<505, 543, 2, -1>>,
      <<547, 563, 2, -1>>, <<572, 572, 1, -1>>, <<575, 576, 1, 10815>>,
      <<578, 578, 1, -1>>, <<583, 591, 2, -1>>, <<592, 592, 1, 10783>>,
      <<593, 593, 1, 10780>>, <<594, 594, 1, 10782>>, <<595, 595, 1, -210>>,
      <<596, 596, 1, -206>>, <<598, 599, 1, -205>>, <<601, 601, 1, -202>>,
      <<603, 603, 1, -203>>, <<604, 604, 1, 42319>>, <<608, 608, 1, -205>>,
      <<609, 609, 1, 42315>>, <<611, 611, 1, -207>>, <<613, 613, 1, 42280>>,
      <<614, 614, 1, 42308>>, <<616, 616, 1, -209>>, <<617, 617, 1, -211>>,
      <<618, 618, 1, 42308>>, <<619, 619, 1, 10743>>, <<620, 620, 1, 42305>>,
      <<623, 623, 1, -211>>, <<625, 625, 1, 10749>>, <<626, 626, 1, -213>>,
      <<629, 629, 1, -214>>, <<637, 637, 1, 10727>>, <<640, 640, 1, -218>>,
      <<642, 642, 1, 42307>>, <<643, 643, 1, -218>>, <<647, 647, 1, 42282>>,
      <<648, 648, 1, -218>>, <<649, 649, 1, -69>>, <<650, 651, 1, -217>>,
      <<652, 652, 1, -71>>, <<658, 658, 1, -219>>, <<669, 669, 1, 42261>>,
      <<670, 670, 1, 42258>>, <<837, 837, 1, 84>>, <<881, 883, 2, -1>>,
      <<887, 887, 1, -1>>, <<891, 893, 1, 130>>, <<940, 940, 1, -38>>,
      <<941, 943, 1, -37>>, <<945, 961, 1, -32>>, <<962, 962, 1, -31>>,
      <<963, 971, 1, -32>>, <<972, 972, 1, -64>>, <<973, 974, 1, -63>>,
      <<976, 976, 1, -62>>, <<977, 977, 1, -57>>, <<981, 981, 1, -47>>,
      <<982, 982, 1, -54>>, <<983, 983, 1, -8>>, <<985, 1007, 2, -1>>,
      <<1008, 1008, 1, -86>>, <<1009, 1009, 1, -80>>, <<1010, 1010, 1, 7>>,
      <<1011, 1011, 1, -116>>, <<1013, 1013, 1, -96>>, <<1016, 1016, 1, -1>>,
      <<1019, 1019, 1, -1>>, <<1072, 1103, 1, -32>>, <<1104, 1119, 1, -80>>,
      <<1121, 1153, 2, -1>>, <<1163, 1215, 2, -1>>, <<1218, 1230, 2, -1>>,
      <<1231, 1231, 1, -15>>, <<1233, 1327, 2, -1>>, <<1377, 1414, 1, -48>>,
      <<4304, 4346, 1, 3008>>, <<4349, 4351, 1, 3008>>, <<5112, 5117, 1, -8>>,
      <<7296, 7296, 1, -6254>>, <<7297, 7297, 1, -6253>>, <<7298, 7298, 1, -6244>>,
      <<7299, 7300, 1, -6242>>, <<7301, 7301, 1, -6243>>, <<7302, 7302, 1, -6236>>,
      <<7303, 7303, 1, -6181>>, <<7304, 7304, 1, 35266>>, <<7545, 7545, 1, 35332>>,
      <<7549, 7549, 1, 3814>>, <<7566, 7566, 1, 35384>>, <<7681, 7829, 2, -1>>,
      <<7835, 7835, 1, -59>>, <<7841, 7935, 2, -1>>, <<7936, 7943, 1, 8>>,
      <<7952, 7957, 1, 8>>, <<7968, 7975, 1, 8>>, <<7984, 7991, 1, 8>>,
      <<8000, 8005, 1, 8>>, <<8017, 8023, 2, 8>>, <<8032, 8039, 1, 8>>,
      <<8048, 8049, 1, 74>>, <<8050, 8053, 1, 86>>, <<8054, 8055, 1, 100>>,
      <<8056, 8057, 1, 128>>, <<8058, 8059, 1, 112>>, <<8060, 8061, 1, 126>>,
      <<8112, 8113, 1, 8>>, <<8126, 8126, 1, -7205>>, <<8144, 8145, 1, 8>>,
      <<8160, 8161, 1, 8>>, <<8165, 8165, 1, 7>>, <<8526, 8526, 1, -28>>,
      <<8560, 8575, 1, -16>>, <<8580, 8580, 1, -1>>, <<9424, 9449, 1, -26>>,
      <<11312, 11359, 1, -48>>, <<11361, 11361, 1, -1>>, <<11365, 11365, 1, -10795>>,
      <<11366, 11366, 1, -10792>>, <<11368, 11372, 2, -1>>, <<11379, 11379, 1, -1>>,
      <<11382, 11382, 1, -1>>, <<11393, 11491, 2, -1>>, <<11500, 11502, 2, -1>>,
      <<11507, 11507, 1, -1>>, <<11520, 11557, 1, -7264>>, <<11559, 11559, 1, -7264>>,
      <<11565, 11565, 1, -7264>>, <<42561, 42605, 2, -1>>, <<42625, 42651, 2, -1>>,
      <<42787, 42799, 2, -1>>, <<42803, 42863, 2, -1>>, <<42874, 42876, 2, -1>>,
      <<42879, 42887, 2, -1>>, <<42892, 42892, 1, -1>>, <<42897, 42899, 2, -1>>,
      <<42900, 42900, 1, 48>>, <<42903, 42921, 2, -1>>, <<42933, 42947, 2, -1>>,
      <<42952, 42954, 2, -1>>, <<42961, 42961, 1, -1>>, <<42967, 42969, 2, -1>>,
      <<42998, 42998, 1, -1>>, <<43859, 43859, 1, -928>>, <<43888, 43967, 1, -38864>>,
      <<65345, 65370, 1, -32>>, <<66600, 66639, 1, -40>>, <<66776, 66811, 1, -40>>,
      <<66967, 66977, 1, -39>>, <<66979, 66993, 1, -39>>, <<66995, 67001, 1, -39>>,
      <<67003, 67004, 1, -39>>, <<68800, 68850, 1, -64>>, <<71872, 71903, 1, -32>>,
      <<93792, 93823, 1, -32>>, <<125218, 125251, 1, -34>> }

UpperSpecial ==
    {
      <<223, <<83, 83>>>>, <<329, <<700, 78>>>>, <<496, <<74, 780>>>>,
      <<912, <<921, 776, 769>>>>, <<944, <<933, 776, 769>>>>, <<1415, <<1333, 1362>>>>,
      <<7830, <<72, 817>>>>, <<7831, <<84, 776>>>>, <<7832, <<87, 778>>>>,
      <<7833, <<89, 778>>>>, <<7834, <<65, 702>>>>, <<8016, <<933, 787>>>>,
      <<8018, <<933, 787, 768>>>>, <<8020, <<933, 787, 769>>>>,
      <<8022, <<933, 787, 834>>>>, <<8064, <<7944, 921>>>>, <<8065, <<7945, 921>>>>,
      <<8066, <<7946, 921>>>>, <<8067, <<7947, 921>>>>, <<8068, <<7948, 921>>>>,
      <<8069, <<7949, 921>>>>, <<8070, <<7950, 921>>>>, <<8071, <<7951, 921>>>>,
      <<8072, <<7944, 921>>>>, <<8073, <<7945, 921>>>>, <<8074, <<7946, 921>>>>,
      <<8075, <<7947, 921>>>>, <<8076, <<7948, 921>>>>, <<8077, <<7949, 921>>>>,
      <<8078, <<7950, 921>>>>, <<8079, <<7951, 921>>>>, <<8080, <<7976, 921>>>>,
      <<8081, <<7977, 921>>>>, <<8082, <<7978, 921>>>>, <<8083, <<7979, 921>>>>,
      <<8084, <<7980, 921>>>>, <<8085, <<7981, 921>>>>, <<8086, <<7982, 921>>>>,
      <<8087, <<7983, 921>>>>, <<8088, <<7976, 921>>>>, <<8089, <<7977, 921>>>>,
      <<8090, <<7978, 921>>>>, <<8091, <<7979, 921>>>>, <<8092, <<7980, 921>>>>,
      <<8093, <<7981, 921>>>>, <<8094, <<7982, 921>>>>, <<8095, <<7983, 921>>>>,
      <<8096, <<8040, 921>>>>, <<8097, <<8041, 921>>>>, <<8098, <<8042, 921>>>>,
      <<8099, <<8043, 921>>>>, <<8100, <<8044, 921>>>>, <<8101, <<8045, 921>>>>,
      <<8102, <<8046, 921>>>>, <<8103, <<8047, 921>>>>, <<8104, <<8040, 921>>>>,
      <<8105, <<8041, 921>>>>, <<8106, <<8042, 921>>>>, <<8107, <<8043, 921>>>>,
      <<8108, <<8044, 921>>>>, <<8109, <<8045, 921>>>>, <<8110, <<8046, 921>>>>,
      <<8111, <<8047, 921>>>>, <<8114, <<8122, 921>>>>, <<8115, <<913, 921>>>>,
      <<8116, <<902, 921>>>>, <<8118, <<913, 834>>>>, <<8119, <<913, 834, 921>>>>,
      <<8124, <<913, 921>>>>, <<8130, <<8138, 921>>>>, <<8131, <<919, 921>>>>,
      <<8132, <<905, 921>>>>, <<8134, <<919, 834>>>>, <<8135, <<919, 834, 921>>>>,
      <<8140, <<919, 921>>>>, <<8146, <<921, 776, 768>>>>, <<8147, <<921, 776, 769>>>>,
      <<8150, <<921, 834>>>>, <<8151, <<921, 776, 834>>>>, <<8162, <<933, 776, 768>>>>,
      <<8163, <<933, 776, 769>>>>, <<8164, <<929, 787>>>>, <<8166, <<933, 834>>>>,
      <<8167, <<933, 776, 834>>>>, <<8178, <<8186, 921>>>>, <<8179, <<937, 921>>>>,
      <<8180, <<911, 921>>>>, <<8182, <<937, 834>>>>, <<8183, <<937, 834, 921>>>>,
      <<8188, <<937, 921>>>>, <<64256, <<70, 70>>>>, <<64257, <<70, 73>>>>,
      <<64258, <<70, 76>>>>, <<64259, <<70, 70, 73>>>>, <<64260, <<70, 70, 76>>>>,
      <<64261, <<83, 84>>>>, <<64262, <<83, 84>>>>, <<64275, <<1348, 1350>>>>,
      <<64276, <<1348, 1333>>>>, <<64277, <<1348, 1339>>>>, <<64278, <<1358, 1350>>>>,
      <<64279, <<1348, 1341>>>> }

UpperChar(c) ==
    IF \E s \in UpperSpecial : s[1] = c
    THEN (CHOOSE s \in UpperSpecial : s[1] = c)[2]
    ELSE IF \E r \in UpperRanges : c \in r[1]..r[2] /\ (c - r[1]) % r[3] = 0
    THEN LET r == CHOOSE r \in UpperRanges : c \in r[1]..r[2] /\ (c - r[1]) % r[3] = 0
         IN  <<c + r[4]>>
    ELSE <<c>>

RECURSIVE Upper(_)
Upper(str) ==
    IF str = <<>> THEN <<>> ELSE UpperChar(Head(str)) \o Upper(Tail(str))

\* The str literals of the loader, as texts.
NA == <<78, 47, 65>>
UNKNOWN == <<85, 78, 75, 78, 79, 87, 78>>
INSERT_0_1 == <<73, 78, 83, 69, 82, 84, 32, 48, 32, 49>>
UPDATE_1 == <<85, 80, 68, 65, 84, 69, 32, 49>>

\* x or 'N/A'
OrNA(x) == IF FalsyText(x) THEN NA ELSE x

\* Lines 106-111: the values bound to the upsert statement for one API row.
RowValues(row, site_url_prop) ==
    LET keys == DictGet(row, "keys", <<>>)
        padded == SubSeq(keys \o <<NoneText, NoneText, NoneText, NoneText>>, 1, 4)
        device_raw == padded[4]
    IN  [ data |-> padded[1], site_url |-> site_url_prop,
          page |-> OrNA(padded[2]), query |-> OrNA(padded[3]),
          device |-> IF FalsyText(device_raw) THEN UNKNOWN ELSE Upper(device_raw),
          search_type |-> "WEB",
          clicks |-> DictGet(row, "clicks", 0),
          impressions |-> DictGet(row, "impressions", 0),
          ctr |-> DictGet(row, "ctr", "0.0"),
          position |-> DictGet(row, "position", "0.0") ]

\* The conflict target of the upsert statement (line 93).
Key(v) == <<v.data, v.site_url, v.page, v.query, v.device, v.search_type>>

\* The columns the statement overwrites on conflict (lines 94-95).
Metrics(v) == <<v.clicks, v.impressions, v.ctr, v.position>>

\* The keys of the rows of a bag.
KeysOf(rows) == {Key(r) : r \in BagToSet(rows)}

\* The declarations of the conflict target that let the statement of lines
\* 90-96 run: a unique index or constraint (NULLs distinct, the columns
\* nullable), or the primary key (the columns NOT NULL).
Schemas == {"unique", "primary_key"}

\* A NULL in a column of the conflict target.  page, query and device are never
\* None (lines 108 and 111) and search_type is a literal.
NullKey(v) == v.data = NoneText \/ v.site_url = None

\* The stored row r stops the insertion of v: same key, and no NULL in it, for a
\* unique index holds NULLs to be distinct.
Conflicts(r, v) == Key(r) = Key(v) /\ ~NullKey(v)

\* The rows of a bag other than those of the set gone.
Without(rows, gone) == [r \in BagToSet(rows) \ gone |-> rows[r]]

\* INSERT ... ON CONFLICT (key) DO UPDATE SET metrics = EXCLUDED.metrics, applied
\* to a bag of rows: the row in conflict is overwritten, and with none in
\* conflict the row is added.
Upsert(rows, v) ==
    Without(rows, {r \in BagToSet(rows) : Conflicts(r, v)}) (+) SetToBag({v})

\* cur.statusmessage after the statement: PostgreSQL's command tag of an INSERT
\* is "INSERT 0 <count>", count being the rows inserted or updated; an
\* INSERT ... ON CONFLICT DO UPDATE that updates one row is tagged like one that
\* inserts it.
StatusMessage(rows, v) == INSERT_0_1

\* "UPDATE 1" in statusmessage
HasUpdate1(statusmessage) == SubstringOf(UPDATE_1, statusmessage)

\* Lines 113-114: the counters after one statement.
Count(statusmessage, inserted_count, updated_count) ==
    IF statusmessage = INSERT_0_1
    THEN [inserted_count |-> inserted_count + 1, updated_count |-> updated_count]
    ELSE IF HasUpdate1(statusmessage)
    THEN [inserted_count |-> inserted_count, updated_count |-> updated_count + 1]
    ELSE [inserted_count |-> inserted_count, updated_count |-> updated_count]

\* What a statement of a transaction sees (READ COMMITTED), and what the table
\* holds once the transaction commits: its own writes, and the committed rows
\* none of them overwrote.
Merge(committed, pending) ==
    pending (+) Without(committed, {r \in BagToSet(committed) :
                                       \E w \in BagToSet(pending) : Conflicts(r, w)})

\* Locals of load_data_to_postgres at entry (lines 85-89); calls, tx and the
\* counters below it are history.
LoadEntry(db_url, data_rows, site_url_prop, calls, committed) ==
    [ started |-> TRUE, db_url |-> db_url, data_rows |-> data_rows,
      site_url_prop |-> site_url_prop,
      conn |-> "None", cur_bound |-> FALSE, idx |-> 0,
      inserted_count |-> 0, updated_count |-> 0,
      pending |-> EmptyBag,     \* rows written by the open transaction
      returned |-> FALSE,
      result |-> [kind |-> "none", inserted |-> 0, updated |-> 0, message |-> <<>>],
      calls |-> calls,
      tx_log |-> <<>>,          \* the values of the statements executed
      connect_attempts |-> 0, commit_calls |-> 0, commits |-> 0,
      rollback_calls |-> 0, failed_at |-> "",
      table_at_call |-> committed ]

\* return inserted_count, updated_count, message
LoadReturn(l, message) ==
    [l EXCEPT !.returned = TRUE,
              !.result = [kind |-> "return", inserted |-> l.inserted_count,
                          updated |-> l.updated_count, message |-> message]]

\* An exception leaves the function.
LoadRaise(l, exc) ==
    [l EXCEPT !.returned = TRUE,
              !.result = [kind |-> "raise", inserted |-> 0, updated |-> 0,
                          message |-> <<exc>>]]

\* Lines 124-128: finally.  cur is unbound when conn.cursor() raised; cur.close()
\* then raises UnboundLocalError, which replaces whatever the function was
\* returning or raising, and conn.close() is not reached.
Finally(l) ==
    IF l.conn = "None" THEN l
    ELSE IF l.cur_bound THEN [l EXCEPT !.conn = "closed", !.pending = EmptyBag]
    ELSE LoadRaise(l, "UnboundLocalError")

\* Lines 119-123: except Exception, for the exception exc raised at step `at`;
\* rb is what conn.rollback() does.
Except(l, exc, at, rb) ==
    LET f == [l EXCEPT !.failed_at = at]
        error_msg == <<"ERRO", "PostgreSQL:", exc>>
    IN  IF f.conn = "None" THEN LoadReturn(f, error_msg)
        ELSE LET r == [f EXCEPT !.rollback_calls = @ + 1, !.pending = EmptyBag]
             IN  IF rb = "ok" THEN LoadReturn(r, error_msg) ELSE LoadRaise(r, rb)

\* try ... except ... finally for a step that raised.
Raised(l, exc, at, rb) == Finally(Except(l, exc, at, rb))

\* Lines 86 and 97-100: the early return on no rows, then the check of db_url.
\* EnterNoCheck: the check of db_url left out.
EnterNoCheck(l) ==
    IF l.data_rows = <<>>
    THEN LoadReturn(l, <<"Nenhum", "dado", "para", "carregar.">>)
    ELSE l
Enter(l) ==
    IF l.data_rows = <<>>
    THEN LoadReturn(l, <<"Nenhum", "dado", "para", "carregar.">>)
    ELSE IF Falsy(l.db_url)
    THEN Raised(l, "ValueError", "config", "ok")
    ELSE l

LoadEnter(p, cont) ==
    /\ pc[p] = "l_enter"
    /\ load' = [load EXCEPT ![p] = Enter(@)]
    /\ pc' = [pc EXCEPT ![p] = IF load'[p].returned THEN cont ELSE "l_connect"]
    /\ UNCHANGED <<schema, DATABASE_URL, today, table, last_upsert, trig, fetch>>

\* Line 101: psycopg2.connect(db_url).
Connect(l, outcome, rb) ==
    LET a == [l EXCEPT !.connect_attempts = @ + 1]
    IN  IF outcome = "ok" THEN [a EXCEPT !.conn = "open"]
        ELSE Raised(a, outcome, "connect", rb)

LoadConnect(p, outcome, rb, cont) ==
    /\ pc[p] = "l_connect"
    /\ load' = [load EXCEPT ![p] = Connect(@, outcome, rb)]
    /\ pc' = [pc EXCEPT ![p] = IF load'[p].returned THEN cont ELSE "l_cursor"]
    /\ UNCHANGED <<schema, DATABASE_URL, today, table, last_upsert, trig, fetch>>

\* Line 102: cur = conn.cursor().
Cursor(l, outcome, rb) ==
    IF outcome = "ok" THEN [l EXCEPT !.cur_bound = TRUE]
    ELSE Raised(l, outcome, "cursor", rb)

LoadCursor(p, outcome, rb, cont) ==
    /\ pc[p] = "l_cursor"
    /\ load' = [load EXCEPT ![p] = Cursor(@, outcome, rb)]
    /\ pc' = [pc EXCEPT ![p] = IF load'[p].returned THEN cont ELSE "l_rows"]
    /\ UNCHANGED <<schema, DATABASE_URL, today, table, last_upsert, trig, fetch>>

\* Lines 105-114: one iteration of the for loop.  outcome is the fault of the
\* connection, if any; a NULL bound to a column of the primary key makes the
\* statement itself fail.
Execute(l, committed, declared, outcome, rb) ==
    LET values == RowValues(l.data_rows[l.idx + 1], l.site_url_prop)
        seen == Merge(committed, l.pending)
        c == Count(StatusMessage(seen, values), l.inserted_count, l.updated_count)
        exc == IF outcome # "ok" THEN outcome
               ELSE IF NullKey(values) /\ declared = "primary_key" THEN "NotNullViolation"
               ELSE "ok"
    IN  IF exc = "ok"
        THEN [l EXCEPT !.idx = @ + 1,
                       !.pending = Upsert(@, values),
                       !.tx_log = Append(@, values),
                       !.inserted_count = c.inserted_count,
                       !.updated_count = c.updated_count]
        ELSE Raised(l, exc, "execute", rb)

\* A statement waits while another open transaction holds an uncommitted write
\* that conflicts with its row.
LockFree(p, v) ==
    \A q \in Procs \ {p} :
        load[q].started => \A w \in BagToSet(load[q].pending) : ~Conflicts(w, v)

LoadExecute(p, outcome, rb, cont) ==
    /\ pc[p] = "l_rows"
    /\ outcome = "ok" =>
          LockFree(p, RowValues(load[p].data_rows[load[p].idx + 1], load[p].site_url_prop))
    /\ load' = [load EXCEPT ![p] = Execute(@, table, schema, outcome, rb)]
    /\ pc' = [pc EXCEPT ![p] =
                 IF load'[p].returned THEN cont
                 ELSE IF load'[p].idx = Len(load'[p].data_rows) THEN "l_commit"
                 ELSE "l_rows"]
    /\ UNCHANGED <<schema, DATABASE_URL, today, table, last_upsert, trig, fetch>>

\* Lines 115-118, then finally: conn.commit() and the success return.
Commit(l, outcome, rb) ==
    LET a == [l EXCEPT !.commit_calls = @ + 1]
    IN  IF outcome = "ok"
        THEN Finally(LoadReturn([a EXCEPT !.commits = @ + 1],
                                <<"Carregamento", "concluido!", "Inseridas:",
                                  ToString(l.inserted_count), "Atualizadas:",
                                  ToString(l.updated_count)>>))
        ELSE Raised(a, outcome, "commit", rb)

\* The latest statement of a transaction's log for each key it wrote.
LastOf(log, k) ==
    LET i == CHOOSE i \in 1..Len(log) :
                 /\ Key(log[i]) = k
                 /\ \A j \in (i + 1)..Len(log) : Key(log[j]) # k
    IN  Metrics(log[i])

Committed(history, log) ==
    LET ks == {Key(log[i]) : i \in 1..Len(log)}
    IN  [k \in (DOMAIN history) \cup ks |->
            IF k \in ks THEN LastOf(log, k) ELSE history[k]]

LoadCommit(p, outcome, rb, cont) ==
    /\ pc[p] = "l_commit"
    /\ load' = [load EXCEPT ![p] = Commit(@, outcome, rb)]
    /\ table' = IF outcome = "ok" THEN Merge(table, load[p].pending) ELSE table
    /\ last_upsert' = IF outcome = "ok" THEN Committed(last_upsert, load[p].tx_log)
                      ELSE last_upsert
    /\ pc' = [pc EXCEPT ![p] = cont]
    /\ UNCHANGED <<schema, DATABASE_URL, today, trig, fetch>>

\* --------------------------------------------- the loader's callers, as environment
DbOutcomes == {"ok", "OperationalError"}

M1 == [clicks |-> 3, impressions |-> 40, ctr |-> "0.075", position |-> "4.2"]
M2 == [clicks |-> 5, impressions |-> 50, ctr |-> "0.1", position |-> "3.9"]

ApiRow(keys, m) ==
    [keys |-> keys, clicks |-> m.clicks, impressions |-> m.impressions,
     ctr |-> m.ctr, position |-> m.position]

\* The texts of the rows below.
Feiras == <<47, 102, 101, 105, 114, 97, 115>>
Feira == <<102, 101, 105, 114, 97>>
Mobile == <<109, 111, 98, 105, 108, 101>>
MobileCapital == <<77, 111, 98, 105, 108, 101>>

\* Rows the API returns for a date: two rows of one composite key (the device
\* "mobile" and "Mobile"), a row with an empty query and no device, a row with
\* no keys and clicks alone.
RowDomain(date) ==
    { ApiRow(<<date, Feiras, Feira, Mobile>>, M1),
      ApiRow(<<date, Feiras, Feira, MobileCapital>>, M2),
      ApiRow(<<date, Feiras, <<>>>>, M1),
      [clicks |-> 1] }

SeqsUpTo(S, n) == UNION {[1..k -> S] : k \in 0..n}

\* ================================================================ trigger
\* The characters int() strips from both ends of its argument.
WhiteSpace ==
    { 9, 10, 11, 12, 13, 32, 133, 160, 5760, 8192, 8193, 8194, 8195, 8196, 8197, 8198,
      8199, 8200, 8201, 8202, 8232, 8233, 8239, 8287, 12288 }

\* The digit zero of every decimal digit run of Unicode; the digits 0..9 of a run
\* are the ten code points from its zero on.
DigitZeros ==
    {
      48, 1632, 1776, 1984, 2406, 2534, 2662, 2790, 2918, 3046, 3174, 3302, 3430, 3558,
      3664, 3792, 3872, 4160, 4240, 6112, 6160, 6470, 6608, 6784, 6800, 6992, 7088,
      7232, 7248, 42528, 43216, 43264, 43472, 43504, 43600, 44016, 65296, 66720, 68912,
      69734, 69872, 69942, 70096, 70384, 70736, 70864, 71248, 71360, 71472, 71904,
      72016, 72784, 73040, 73120, 92768, 92864, 93008, 120782, 120792, 120802, 120812,
      120822, 123200, 123632, 125264, 130032 }

Digit(c) == \E z \in DigitZeros : c \in z..(z + 9)
DigitValue(c) == c - (CHOOSE z \in DigitZeros : c \in z..(z + 9))

Plus == 43
Minus == 45
Underscore == 95

\* sys.get_int_max_str_digits(): int() of a text with more digits is ValueError.
IntMaxStrDigits == 4300

\* timedelta takes |days| <= TimedeltaMaxDays.  Python's int has no width; every
\* value past that range is kept as Beyond, its sign apart, for line 147 raises
\* OverflowError on all of them alike.
TimedeltaMaxDays == 999999999
Beyond == TimedeltaMaxDays + 1

\* The value of a run of digits, most significant first; Beyond as soon as it
\* is past the range.
RECURSIVE DecimalValue(_, _)
DecimalValue(chars, acc) ==
    IF chars = <<>> THEN acc
    ELSE IF acc >= Beyond \div 10 THEN Beyond
    ELSE DecimalValue(Tail(chars), 10 * acc + DigitValue(Head(chars)))

NotUnderscore(c) == c # Underscore

\* The value of a well-formed body: its digits, underscores and leading zeros
\* dropped.
BodyValue(body) ==
    LET ds == SelectSeq(body, NotUnderscore)
        nz == {i \in 1..Len(ds) : DigitValue(ds[i]) # 0}
    IN  IF nz = {} THEN 0
        ELSE LET first == CHOOSE i \in nz : \A j \in nz : i <= j
             IN  DecimalValue(SubSeq(ds, first, Len(ds)), 0)

\* int(text): whitespace is stripped at both ends, one sign is allowed, then
\* decimal digits of any script, single underscores between digits, at most
\* IntMaxStrDigits digits.  ok = FALSE is ValueError.
PyInt(text) ==
    LET inner == {i \in 1..Len(text) : text[i] \notin WhiteSpace}
    IN  IF inner = {} THEN [ok |-> FALSE, value |-> 0]
        ELSE
        LET a == CHOOSE i \in inner : \A j \in 1..(i - 1) : text[j] \in WhiteSpace
            b == CHOOSE i \in inner : \A j \in (i + 1)..Len(text) : text[j] \in WhiteSpace
            core == SubSeq(text, a, b)
            signed == core[1] \in {Plus, Minus}
            body == IF signed THEN Tail(core) ELSE core
            n == Len(body)
            wellformed ==
                /\ n >= 1
                /\ \A i \in 1..n : Digit(body[i]) \/ body[i] = Underscore
                /\ body[1] # Underscore /\ body[n] # Underscore
                /\ \A i \in 1..(n - 1) :
                       ~(body[i] = Underscore /\ body[i + 1] = Underscore)
                /\ Len(SelectSeq(body, NotUnderscore)) <= IntMaxStrDigits
        IN  IF ~wellformed THEN [ok |-> FALSE, value |-> 0]
            ELSE [ok |-> TRUE,
                  value |-> IF core[1] = Minus THEN 0 - BodyValue(body)
                            ELSE BodyValue(body)]

\* Lines 137-140: int(request.args.get('days', '2')), 2 on ValueError.
DaysParam(args) ==
    LET r == PyInt(DictGet(args, "days", <<50>>)) IN IF r.ok THEN r.value ELSE 2

\* datetime.date.today() - datetime.timedelta(days=days_param), on ordinals.
\* A date lies in 0001-01-01..9999-12-31; a timedelta or a date out of range is
\* OverflowError.
TargetDate(today_ord, days_param) ==
    IF days_param > TimedeltaMaxDays \/ days_param < 0 - TimedeltaMaxDays
    THEN [ok |-> FALSE, ord |-> 0]
    ELSE LET t == today_ord - days_param
         IN  IF t < 1 \/ t > 3652059 THEN [ok |-> FALSE, ord |-> 0]
             ELSE [ok |-> TRUE, ord |-> t]

DaysBeforeMonth == <<0, 31, 59, 90, 120, 151, 181, 212, 243, 273, 304, 334>>
DaysInMonth == <<31, 28, 31, 30, 31, 30, 31, 31, 30, 31, 30, 31>>

\* target_date.strftime('%Y-%m-%d'): the year, month and day of an ordinal, kept
\* as the three numbers the string spells.
Strftime(ord) ==
    LET n0 == ord - 1
        n400 == n0 \div 146097
        r400 == n0 % 146097
        n100 == r400 \div 36524
        r100 == r400 % 36524
        n4 == r100 \div 1461
        r4 == r100 % 1461
        n1 == r4 \div 365
        n == r4 % 365
        year == n400 * 400 + 1 + n100 * 100 + n4 * 4 + n1
    IN  IF n1 = 4 \/ n100 = 4 THEN <<year - 1, 12, 31>>
        ELSE
        LET leapyear == n1 = 3 /\ (n4 # 24 \/ n100 = 3)
            leap(m) == IF m > 2 /\ leapyear THEN 1 ELSE 0
            month0 == (n + 50) \div 32
            preceding0 == DaysBeforeMonth[month0] + leap(month0)
            month == IF preceding0 > n THEN month0 - 1 ELSE month0
            preceding ==
                IF preceding0 > n
                THEN preceding0 - (DaysInMonth[month]
                                   + (IF month = 2 /\ leapyear THEN 1 ELSE 0))
                ELSE preceding0
        IN  <<year, month, n - preceding + 1>>

\* Locals of trigger_gsc_sync for a request with query parameters args.
TrigEntry(args) ==
    [ started |-> TRUE, args |-> args, days_param |-> 0,
      gsc_service |-> None, auth_error |-> NoMessage,
      start_date_str |-> <<>>, end_date_str |-> <<>>,
      response |-> [http |-> 0, body |-> <<>>],
      events |-> <<>> ]      \* history: the stages invoked and the response

\* return jsonify(body), http
Respond(t, http, body) ==
    [t EXCEPT !.response = [http |-> http, body |-> body],
              !.events = Append(@, "respond")]

\* An exception leaves the view function: the framework answers 500 and the
\* body is not the handler's.
Unhandled(t, exc) == Respond(t, 500, [unhandled |-> exc])

Responded(t) == t.response.http # 0

\* Lines 133-141: the configuration check and the parsing of days.
\* ReceiveNoGuard: the configuration check left out.
ReceiveNoGuard(t, database_url) ==
    [t EXCEPT !.events = Append(@, "config"), !.days_param = DaysParam(t.args)]
Receive(t, database_url) ==
    LET e == [t EXCEPT !.events = Append(@, "config")]
    IN  IF Falsy(database_url)
        THEN Respond(e, 500, [status |-> "error",
                              message |-> <<"DATABASE_URL", "not", "configured">>])
        ELSE [e EXCEPT !.days_param = DaysParam(t.args)]

TriggerReceive(p) ==
    /\ pc[p] = "t_receive"
    /\ trig' = [trig EXCEPT ![p] = Receive(@, DATABASE_URL)]
    /\ pc' = [pc EXCEPT ![p] = IF Responded(trig'[p]) THEN "done" ELSE "t_auth"]
    /\ UNCHANGED <<schema, DATABASE_URL, today, table, last_upsert, fetch, load>>

\* authenticate_gsc (lines 28-42): the service and no error, or no service and
\* the message of the exception caught.
AuthenticateGsc(key_path, outcome) ==
    IF outcome = "ok" THEN [service |-> "service", error |-> NoMessage]
    ELSE IF outcome = "FileNotFoundError"
    THEN [service |-> None,
          error |-> <<"ERRO:", "Arquivo", "de", "chave", "nao", "encontrado", "em:", key_path>>]
    ELSE [service |-> None, error |-> <<"ERRO", "na", "autenticacao", "GSC:", outcome>>]

\* Lines 143-145.
Authenticate(t, outcome) ==
    LET r == AuthenticateGsc(GCP_KEY_PATH, outcome)
        e == [t EXCEPT !.events = Append(@, "auth"), !.gsc_service = r.service,
                       !.auth_error = r.error]
    IN  IF Falsy(r.service)
        THEN Respond(e, 500, [status |-> "error",
                              message |-> <<"GSC", "Authentication", "Failed:">> \o r.error])
        ELSE e

TriggerAuthenticate(p, outcome) ==
    /\ pc[p] = "t_auth"
    /\ trig' = [trig EXCEPT ![p] = Authenticate(@, outcome)]
    /\ pc' = [pc EXCEPT ![p] = IF Responded(trig'[p]) THEN "done" ELSE "t_date"]
    /\ UNCHANGED <<schema, DATABASE_URL, today, table, last_upsert, fetch, load>>

\* Lines 147-151: the target date and the call of fetch_gsc_data.
TargetDates(t, today_ord) ==
    LET d == TargetDate(today_ord, t.days_param)
    IN  IF d.ok
        THEN [t EXCEPT !.start_date_str = Strftime(d.ord),
                       !.end_date_str = Strftime(d.ord),
                       !.events = Append(@, "fetch")]
        ELSE Unhandled(t, "OverflowError")

TriggerDate(p) ==
    /\ pc[p] = "t_date"
    /\ trig' = [trig EXCEPT ![p] = TargetDates(@, today)]
    /\ IF Responded(trig'[p])
       THEN /\ pc' = [pc EXCEPT ![p] = "done"]
            /\ UNCHANGED fetch
       ELSE /\ pc' = [pc EXCEPT ![p] = "fetch_loop"]
            /\ fetch' = [fetch EXCEPT ![p] =
                            FetchEntry(trig'[p].start_date_str, trig'[p].end_date_str)]
    /\ UNCHANGED <<schema, DATABASE_URL, today, table, last_upsert, load>>

\* Lines 152-155: the check of the fetch result and the call of the loader.
Fetched(t, f) ==
    IF f.gsc_rows.none
    THEN Respond(t, 500, [status |-> "error",
                          message |-> <<"GSC", "Fetch", "Failed:">> \o f.fetch_error])
    ELSE [t EXCEPT !.events = Append(@, "load")]

TriggerFetched(p) ==
    /\ pc[p] = "t_fetched"
    /\ trig' = [trig EXCEPT ![p] = Fetched(@, fetch[p])]
    /\ IF Responded(trig'[p])
       THEN /\ pc' = [pc EXCEPT ![p] = "done"]
            /\ UNCHANGED load
       ELSE /\ pc' = [pc EXCEPT ![p] = "l_enter"]
            /\ load' = [load EXCEPT ![p] =
                           LoadEntry(DATABASE_URL, fetch[p].gsc_rows.rows, GSC_SITE_URL,
                                     1, table)]
    /\ UNCHANGED <<schema, DATABASE_URL, today, table, last_upsert, fetch>>

\* Lines 157-160: the response after the loader; an exception of the loader
\* leaves the handler.
Loaded(t, f, l) ==
    IF l.result.kind = "raise" THEN Unhandled(t, l.result.message[1])
    ELSE IF Contains(l.result.message, "ERRO")
    THEN Respond(t, 500, [status |-> "error",
                          message |-> <<"PostgreSQL", "Load", "Failed:">> \o l.result.message,
                          inserted |-> l.result.inserted, updated |-> l.result.updated])
    ELSE Respond(t, 200, [status |-> "success", message |-> l.result.message,
                          date_processed |-> t.start_date_str,
                          rows_found |-> Len(f.gsc_rows.rows),
                          inserted |-> l.result.inserted, updated |-> l.result.updated])

TriggerLoaded(p) ==
    /\ pc[p] = "t_loaded"
    /\ trig' = [trig EXCEPT ![p] = Loaded(@, fetch[p], load[p])]
    /\ pc' = [pc EXCEPT ![p] = "done"]
    /\ UNCHANGED <<schema, DATABASE_URL, today, table, last_upsert, fetch, load>>

\* ------------------------------------------------------------ blank state
NoTrig == [TrigEntry(<<>>) EXCEPT !.started = FALSE]
NoLoad == [LoadEntry(None, <<>>, "", 0, EmptyBag) EXCEPT !.started = FALSE]
NoFetch == FetchEntry(<<>>, <<>>)

\* =========================================================== specifications
\* SpecFetch: fetch_gsc_data called on its own.
InitFetch ==
    /\ schema = "unique"
    /\ DATABASE_URL = None
    /\ today = 739918
    /\ table = EmptyBag
    /\ last_upsert = <<>>
    /\ pc = [p \in Procs |-> IF p = "r1" THEN "fetch_loop" ELSE "idle"]
    /\ trig = [p \in Procs |-> NoTrig]
    /\ load = [p \in Procs |-> NoLoad]
    /\ \E s \in 26..28 : \E e \in s..28 :
          fetch = [p \in Procs |-> IF p = "r1"
                                   THEN FetchEntry(<<2026, 10, s>>, <<2026, 10, e>>)
                                   ELSE NoFetch]

NextFetch ==
    \E p \in Procs : \E outcome \in ApiOutcomes : \E response \in UnitResponses(fetch[p]) :
        FetchRequest(p, outcome, response, "done")

SpecFetch == InitFetch /\ [][NextFetch]_vars

\* SpecLoad: load_data_to_postgres called on its own, up to MaxCalls times in
\* succession against one store.
LoadDates == {<<2026, 10, 27>>}
LoadInputs == UNION {SeqsUpTo(RowDomain(d), MaxRows) : d \in LoadDates}
DbUrls == {None, "", "postgres://gsc"}

LoadCall(p, db_url, data_rows) ==
    /\ pc[p] = "l_idle"
    /\ load[p].calls < MaxCalls
    /\ load' = [load EXCEPT ![p] =
                   LoadEntry(db_url, data_rows, GSC_SITE_URL, load[p].calls + 1, table)]
    /\ pc' = [pc EXCEPT ![p] = "l_enter"]
    /\ UNCHANGED <<schema, DATABASE_URL, today, table, last_upsert, trig, fetch>>

InitLoad ==
    /\ schema \in Schemas
    /\ DATABASE_URL = None
    /\ today = 739918
    /\ table = EmptyBag
    /\ last_upsert = <<>>
    /\ pc = [p \in Procs |-> IF p = "r1" THEN "l_idle" ELSE "idle"]
    /\ trig = [p \in Procs |-> NoTrig]
    /\ load = [p \in Procs |-> NoLoad]
    /\ fetch = [p \in Procs |-> NoFetch]

NextLoad ==
    \E p \in Procs :
        \/ \E db_url \in DbUrls : \E data_rows \in LoadInputs : LoadCall(p, db_url, data_rows)
        \/ LoadEnter(p, "l_idle")
        \/ \E outcome \in DbOutcomes : \E rb \in DbOutcomes :
              \/ LoadConnect(p, outcome, rb, "l_idle")
              \/ LoadCursor(p, outcome, rb, "l_idle")
              \/ LoadExecute(p, outcome, rb, "l_idle")
              \/ LoadCommit(p, outcome, rb, "l_idle")

SpecLoad == InitLoad /\ [][NextLoad]_vars

\* Spec: one request to /trigger-gsc-sync, with every configuration, parameter
\* and answer of the environment.
\* A text of n digits 1.
Ones(n) == [i \in 1..n |-> 49]

DaysTexts ==
    {
      <<48>>,                                      \* 0
      <<49>>,                                      \* 1
      <<50>>,                                      \* 2
      <<55>>,                                      \* 7
      <<32, 51, 32>>,                              \* ' 3 '
      <<45, 49>>,                                  \* -1
      <<43, 50>>,                                  \* +2
      <<49, 95, 48>>,                              \* 1_0
      <<49, 46, 53>>,                              \* 1.5
      <<>>,                                        \* ''
      <<97, 98, 99>>,                              \* abc
      <<95, 49>>,                                  \* _1
      <<45, 32, 49>>,                              \* '- 1'
      <<49, 95, 95, 48>>,                          \* 1__0
      <<9, 51>>,                                   \* TAB 3
      <<51, 10>>,                                  \* 3 LF
      <<160, 51>>,                                 \* NBSP 3
      <<28, 51>>,                                  \* U+001C 3
      <<1635>>,                                    \* ARABIC-INDIC DIGIT THREE
      <<65305>>,                                   \* FULLWIDTH DIGIT NINE
      <<45, 2407, 2408>>,                          \* - DEVANAGARI ONE TWO
      <<51, 48, 48, 48, 48, 48, 48>>,              \* 3000000
      <<45, 51, 48, 48, 48, 48, 48, 48>>,          \* -3000000
      <<57, 57, 57, 57, 57, 57, 57, 57, 57>>,      \* 999999999
      <<49, 48, 48, 48, 48, 48, 48, 48, 48, 48>>,  \* 1000000000
      <<45, 49, 50, 51, 52, 53, 54, 55, 56, 57, 48, 49>>, \* -12345678901
      Ones(IntMaxStrDigits + 1) }
RequestArgs == {<<>>} \cup {[days |-> t] : t \in DaysTexts}
Todays == {739918, 738946}
AuthOutcomes == {"ok", "FileNotFoundError", "Exception"}

\* The API's answers to a trigger run: short pages of rows of the requested date.
TriggerResponses(f) ==
    {[rows |-> r] : r \in SeqsUpTo(RowDomain(f.start_date_str), MaxRows)}
    \cup {[responseAggregationType |-> "byPage"]}

Init ==
    /\ schema \in Schemas
    /\ DATABASE_URL \in DbUrls
    /\ today \in Todays
    /\ table = EmptyBag
    /\ last_upsert = <<>>
    /\ pc = [p \in Procs |-> IF p = "r1" THEN "t_receive" ELSE "idle"]
    /\ \E args \in RequestArgs :
          trig = [p \in Procs |-> IF p = "r1" THEN TrigEntry(args) ELSE NoTrig]
    /\ load = [p \in Procs |-> NoLoad]
    /\ fetch = [p \in Procs |-> NoFetch]

Next ==
    \E p \in Procs :
        \/ TriggerReceive(p)
        \/ \E outcome \in AuthOutcomes : TriggerAuthenticate(p, outcome)
        \/ TriggerDate(p)
        \/ \E outcome \in ApiOutcomes : \E response \in TriggerResponses(fetch[p]) :
              FetchRequest(p, outcome, response, "t_fetched")
        \/ TriggerFetched(p)
        \/ LoadEnter(p, "t_loaded")
        \/ \E outcome \in DbOutcomes : \E rb \in DbOutcomes :
              \/ LoadConnect(p, outcome, rb, "t_loaded")
              \/ LoadCursor(p, outcome, rb, "t_loaded")
              \/ LoadExecute(p, outcome, rb, "t_loaded")
              \/ LoadCommit(p, outcome, rb, "t_loaded")
        \/ TriggerLoaded(p)

Spec == Init /\ [][Next]_vars

\* SpecConc: two requests served at once, for the same date, against one store.
ConcRows(date) ==
    { ApiRow(<<date, Feiras, Feira, Mobile>>, M1),
      ApiRow(<<date, Feiras, Feira, MobileCapital>>, M2),
      [clicks |-> 1] }

\* The API groups by the requested dimensions: a page holds a combination once.
Injective(r) == \A i, j \in 1..Len(r) : r[i] = r[j] => i = j

ConcResponses(f) ==
    {[rows |-> r] : r \in {q \in SeqsUpTo(ConcRows(f.start_date_str), MaxRows) : Injective(q)}}

InitConc ==
    /\ schema \in Schemas
    /\ DATABASE_URL = "postgres://gsc"
    /\ today = 739918
    /\ table = EmptyBag
    /\ last_upsert = <<>>
    /\ pc = [p \in Procs |-> "t_receive"]
    /\ trig = [p \in Procs |-> TrigEntry(<<>>)]
    /\ load = [p \in Procs |-> NoLoad]
    /\ fetch = [p \in Procs |-> NoFetch]

NextConc ==
    \E p \in Procs :
        \/ TriggerReceive(p)
        \/ \E outcome \in AuthOutcomes : TriggerAuthenticate(p, outcome)
        \/ TriggerDate(p)
        \/ \E outcome \in ApiOutcomes : \E response \in ConcResponses(fetch[p]) :
              FetchRequest(p, outcome, response, "t_fetched")
        \/ TriggerFetched(p)
        \/ LoadEnter(p, "t_loaded")
        \/ \E outcome \in DbOutcomes : \E rb \in DbOutcomes :
              \/ LoadConnect(p, outcome, rb, "t_loaded")
              \/ LoadCursor(p, outcome, rb, "t_loaded")
              \/ LoadExecute(p, outcome, rb, "t_loaded")
              \/ LoadCommit(p, outcome, rb, "t_loaded")
        \/ TriggerLoaded(p)

SpecConc == InitConc /\ [][NextConc]_vars

\* ================================================================== claims
PageSize(f, i) == Len(f.pages[i].rows)

\* C1 (SpecFetch): while the API answers with pages and no error, request i asks
\* for startRow = (i-1)*P with rowLimit P, every page before the last is full,
\* the fetch returns exactly when a page is shorter than P (or empty), and it
\* then returns, with no error, the rows of the pages concatenated in request
\* order, each page's order kept: n*P + k rows.
C1_Pagination ==
    \A p \in Procs :
        LET f == fetch[p]
            m == Len(f.pages)
            P == ROW_LIMIT_PER_REQUEST
        IN  (\A i \in 1..m : ~f.pages[i].error) =>
              /\ Len(f.requests) = m
              /\ \A i \in 1..m : /\ f.requests[i].startRow = (i - 1) * P
                                 /\ f.requests[i].rowLimit = P
              /\ \A i \in 1..(m - 1) : PageSize(f, i) = P
              /\ f.returned <=> (m >= 1 /\ PageSize(f, m) < P)
              /\ f.returned =>
                    /\ ~f.gsc_rows.none
                    /\ f.fetch_error = NoMessage
                    /\ Len(f.gsc_rows.rows) = (m - 1) * P + PageSize(f, m)
                    /\ \A j \in 1..m : \A i \in 1..PageSize(f, j) :
                           f.gsc_rows.rows[(j - 1) * P + i] = f.pages[j].rows[i]

\* A fetch that returned after three full pages and a short, non-empty one.
C1_Witness ==
    \E p \in Procs :
        LET f == fetch[p]
        IN  /\ f.returned /\ ~f.gsc_rows.none
            /\ Len(f.pages) = 4
            /\ PageSize(f, 4) = 2
            /\ Len(f.gsc_rows.rows) = 3 * ROW_LIMIT_PER_REQUEST + 2

\* C2 (SpecFetch): an error of the API on any request ends the fetch at that
\* request: no further request is sent, the fetch returns None for the rows
\* together with an error message, and none of the rows accumulated from the
\* earlier pages is returned.
C2_AllOrNothing ==
    \A p \in Procs :
        LET f == fetch[p]
            m == Len(f.pages)
        IN  \A n \in 1..m :
                f.pages[n].error =>
                    /\ n = m
                    /\ Len(f.requests) = m
                    /\ f.returned
                    /\ f.gsc_rows.none
                    /\ f.gsc_rows.rows = <<>>
                    /\ f.fetch_error # NoMessage
                    /\ Contains(f.fetch_error, "ERRO")

\* The third request of a fetch failed after two full pages were accumulated.
C2_Witness ==
    \E p \in Procs :
        LET f == fetch[p]
        IN  /\ f.returned
            /\ Len(f.pages) = 3
            /\ f.pages[3].error
            /\ Len(f.all_rows) = 2 * ROW_LIMIT_PER_REQUEST
            /\ f.gsc_rows.none

\* C3 (SpecLoad), the claim as stated: a committed load of one row reports
\* inserted 1, updated 0 when the store held no row of its key, and inserted 0,
\* updated 1 when the store already held that same row (the second of two loads
\* of the row); the store then holds exactly one row of the key, with the
\* values of this load.
C3_UpsertIdempotence ==
    \A p \in Procs :
        LET l == load[p]
        IN  (l.returned /\ l.result.kind = "return" /\ l.commits = 1
               /\ Len(l.data_rows) = 1) =>
              LET v == RowValues(l.data_rows[1], l.site_url_prop)
              IN  /\ Key(v) \notin KeysOf(l.table_at_call) =>
                         l.result.inserted = 1 /\ l.result.updated = 0
                  /\ BagIn(v, l.table_at_call) =>
                         l.result.inserted = 0 /\ l.result.updated = 1
                  /\ Without(table, {r \in BagToSet(table) : Key(r) # Key(v)})
                         = SetToBag({v})

\* C4 (SpecLoad), the claim as stated: when connecting or the upsert of a row
\* fails, no later row is executed, the store is as it was before the call,
\* commit is never called, and the call returns the counts of the rows before
\* the failing one with an error message; commit is called at most once, and
\* only after every row's upsert succeeded.
C4_LoaderAtomicity ==
    \A p \in Procs :
        LET l == load[p]
        IN  /\ (l.returned /\ l.failed_at \in {"connect", "execute"}) =>
                  /\ Len(l.tx_log) = l.idx
                  /\ table = l.table_at_call
                  /\ l.commit_calls = 0
                  /\ l.result.kind = "return"
                  /\ Contains(l.result.message, "ERRO")
                  /\ l.result.inserted + l.result.updated = l.idx
            /\ l.commit_calls <= 1
            /\ l.commit_calls = 1 =>
                  l.data_rows # <<>> /\ Len(l.tx_log) = Len(l.data_rows)

\* C5 (SpecLoad), the claim as stated: a call that opened a connection has
\* closed it when it ends, whichever step failed.
C5_ConnectionReleased ==
    \A p \in Procs :
        LET l == load[p]
        IN  (l.returned /\ l.conn # "None") => l.conn = "closed"

\* C6 (SpecLoad), the claim as stated: with a missing connection string the call
\* returns an error message with counts (0, 0), for every input, the empty one
\* included, without processing a row or attempting a connection.
C6_AsStated ==
    \A p \in Procs :
        LET l == load[p]
        IN  (l.started /\ l.returned /\ Falsy(l.db_url)) =>
              /\ l.result.kind = "return"
              /\ Contains(l.result.message, "ERRO")
              /\ l.result.inserted = 0 /\ l.result.updated = 0
              /\ l.idx = 0 /\ l.connect_attempts = 0

\* C6 (SpecLoad), amended: with a missing connection string no connection is
\* ever attempted and no row processed, and the call returns counts (0, 0); for
\* a non-empty input the message reports the error, for the empty input it is
\* the "no data" message of the early return, which is not an error.
C6_ConfigGuard ==
    \A p \in Procs :
        LET l == load[p]
        IN  (l.started /\ Falsy(l.db_url)) =>
              /\ l.connect_attempts = 0 /\ l.idx = 0 /\ l.conn = "None"
              /\ pc[p] \notin {"l_connect", "l_cursor", "l_rows", "l_commit"}
              /\ l.returned =>
                    /\ l.result.kind = "return"
                    /\ l.result.inserted = 0 /\ l.result.updated = 0
                    /\ l.data_rows # <<>> =>
                          l.result.message = <<"ERRO", "PostgreSQL:", "ValueError">>
                    /\ l.data_rows = <<>> =>
                          /\ l.result.message = <<"Nenhum", "dado", "para", "carregar.">>
                          /\ ~Contains(l.result.message, "ERRO")

\* A call with rows and no connection string that returned its error.
C6_Witness ==
    \E p \in Procs :
        LET l == load[p]
        IN  /\ l.started /\ l.returned /\ l.db_url = None
            /\ Len(l.data_rows) = 2
            /\ Contains(l.result.message, "ERRO")

StageOrder == <<"config", "auth", "fetch", "load">>

\* The stages of the log e, without the response that may end it.
StagesOf(e) ==
    IF e # <<>> /\ e[Len(e)] = "respond" THEN SubSeq(e, 1, Len(e) - 1) ELSE e

\* C7 (Spec): the stages of a run are a prefix of configuration check,
\* authenticate, fetch, load, each once; a stage is invoked only after every
\* earlier one succeeded; the response is the last event of a run and nothing
\* of the run changes after it; with no connection string configured the run
\* answers an error with no authentication, API request or store call made.
C7_StageOrdering ==
    /\ [](\A p \in Procs :
            LET t == trig[p]
                st == StagesOf(t.events)
            IN  /\ Len(st) <= Len(StageOrder)
                /\ st = SubSeq(StageOrder, 1, Len(st))
                /\ \A i \in 1..Len(t.events) :
                       t.events[i] = "respond" => i = Len(t.events)
                /\ Len(st) >= 2 => ~Falsy(DATABASE_URL)
                /\ Len(st) >= 3 => t.gsc_service # None
                /\ Len(st) >= 4 => fetch[p].returned /\ ~fetch[p].gsc_rows.none
                /\ t.gsc_service # None => Len(st) >= 2
                /\ fetch[p].requests # <<>> => Len(st) >= 3
                /\ load[p].started => Len(st) >= 4
                /\ (t.started /\ Falsy(DATABASE_URL) /\ Responded(t)) =>
                       /\ t.response.http = 500
                       /\ t.response.body.status = "error"
                       /\ t.events = <<"config", "respond">>
                       /\ t.gsc_service = None
                       /\ fetch[p].requests = <<>>
                       /\ ~load[p].started)
    /\ [][\A p \in Procs :
            Responded(trig[p]) =>
                trig'[p] = trig[p] /\ fetch'[p] = fetch[p] /\ load'[p] = load[p]]_vars

\* A run that went through every stage and answered.
C7_Witness ==
    \E p \in Procs :
        /\ trig[p].events = <<"config", "auth", "fetch", "load", "respond">>
        /\ load[p].commits = 1

\* The failures claim C8 lists.
StageFailed(p) ==
    \/ Falsy(DATABASE_URL)
    \/ Len(StagesOf(trig[p].events)) >= 2 /\ trig[p].gsc_service = None
    \/ fetch[p].returned /\ fetch[p].gsc_rows.none
    \/ /\ load[p].returned /\ load[p].result.kind = "return"
       /\ Contains(load[p].result.message, "ERRO")

\* C8 (Spec), the claim as stated: a finished run has answered status "error"
\* with HTTP 500 exactly when a stage failed, and otherwise status "success"
\* with HTTP 200 and rows_found the number of rows fetched.
C8_Outcome ==
    \A p \in Procs :
        (trig[p].started /\ pc[p] = "done") =>
            LET r == trig[p].response
            IN  IF StageFailed(p)
                THEN r.http = 500 /\ DictGet(r.body, "status", "") = "error"
                ELSE /\ r.http = 200
                     /\ DictGet(r.body, "status", "") = "success"
                     /\ DictGet(r.body, "rows_found", -1) = Len(fetch[p].gsc_rows.rows)

\* A bag holds one row of a key at most.
Unique(rows) ==
    \A a, b \in BagToSet(rows) : Key(a) = Key(b) => a = b /\ rows[a] = 1

\* C9 (SpecConc), the claim as stated: with two runs whose upserts interleave,
\* the store holds at most one row per composite key, the metrics of each row
\* are those of the latest committed upsert of its key, and no committed key
\* is ever missing from the store (last_upsert keeps every key committed so
\* far).
C9_KeyUniqueness ==
    /\ Unique(table)
    /\ KeysOf(table) = DOMAIN last_upsert
    /\ \A r \in BagToSet(table) : Metrics(r) = last_upsert[Key(r)]

\* C10 (Spec), the claim as stated: the days parameter never ends a run before
\* authentication, and once authentication has succeeded the fetch is issued
\* with start date = end date = the current date minus d days, d being the
\* parameter's integer value, or 2 when it is absent or not an integer.
C10_DaysParameter ==
    \A p \in Procs :
        LET t == trig[p]
            parsed == PyInt(DictGet(t.args, "days", <<50>>))
            d == IF parsed.ok THEN parsed.value ELSE 2
        IN  /\ (t.started /\ ~Falsy(DATABASE_URL) /\ pc[p] \notin {"t_receive"}) =>
                   Len(StagesOf(t.events)) >= 2 \/ pc[p] = "t_auth"
            /\ (t.started /\ t.gsc_service # None /\ pc[p] # "t_date") =>
                   /\ Len(StagesOf(t.events)) >= 3
                   /\ t.start_date_str = Strftime(today - d)
                   /\ t.end_date_str = Strftime(today - d)
                   /\ fetch[p].start_date_str = t.start_date_str
                   /\ fetch[p].end_date_str = t.end_date_str
====
